---- MODULE Spec2Model ----
(***************************************************************************)
(* A model of sealed-secrets-ui: the form handler CreateSealedSecretHandler *)
(* with its textarea parser parseKeyValuePairs, and the service method      *)
(* SealedSecretService.CreateSealedSecret with the helpers it calls.        *)
(*                                                                          *)
(* Texts that the parser reads, annotation keys and allow-list entries are  *)
(* sequences of characters, a character being a string: itself when it is   *)
(* an ASCII character a TLA+ string literal can hold, a name otherwise (BT  *)
(* for the backtick U+0060, "U+00A0" for the no-break space).  Namespaces,  *)
(* secret names, scopes and labels are TLA+ strings.                        *)
(***************************************************************************)
EXTENDS Integers, Sequences, FiniteSets, TLC

VARIABLES
    annotationsToPreserve, \* SealedSecretService.annotationsToPreserve
    annotationAllowlist,   \* the allow-list NewSealedSecretService was given
    controllerKey,         \* the controller's current public key (rotates)
    pc,                    \* position of the request being served
    form,                  \* the posted form: scope, namespace, secretName, values
    keyValues,             \* what parseKeyValuePairs returned to the handler
    secretRead,            \* outcome of the Secrets(namespace).Get call
    existingData,          \* getSecretData's result
    valuesToEncrypt,       \* the merged values (encryptRequest.values)
    pubKey,                \* encryptRequest.pubKey
    encryptedData,         \* the map encryptValues is filling
    annRead,               \* outcome of the SealedSecret Get call
    ret,                   \* what CreateSealedSecret returned: [yaml, err]
    response,              \* what the handler issued: a rendering or an http.Error
    toRange,               \* keys the range loop of encryptValues has yet to visit
    calls,                 \* the calls CreateSealedSecret has completed, in order
    labelPair              \* two requests and the labels getLabel gave them

vars == <<annotationsToPreserve, annotationAllowlist, controllerKey, pc, form,
          keyValues, secretRead, existingData, valuesToEncrypt, pubKey,
          encryptedData, toRange, annRead, ret, response, calls, labelPair>>

-----------------------------------------------------------------------------
(* Bounds of the model. *)

\* longest textarea text enumerated for the parser
MaxTextLen == 5
\* longest namespace / secret name enumerated for getLabel
MaxNameLen == 2
\* number of key rotations the controller performs
MaxRotations == 2

-----------------------------------------------------------------------------
(* Characters and strings.Xxx helpers over sequences of characters. *)

BT == "backtick"
escapedBacktick == <<"\\", BT>>

HasSuffix(s, suffix) ==
    /\ Len(s) >= Len(suffix)
    /\ SubSeq(s, Len(s) - Len(suffix) + 1, Len(s)) = suffix

HasPrefix(s, prefix) ==
    /\ Len(s) >= Len(prefix)
    /\ SubSeq(s, 1, Len(prefix)) = prefix

\* strings.CutSuffix: (before, found)
CutSuffix(s, suffix) ==
    IF HasSuffix(s, suffix)
    THEN [s |-> SubSeq(s, 1, Len(s) - Len(suffix)), found |-> TRUE]
    ELSE [s |-> s, found |-> FALSE]

\* strings.CutPrefix: (after, found)
CutPrefix(s, prefix) ==
    IF HasPrefix(s, prefix)
    THEN [s |-> SubSeq(s, Len(prefix) + 1, Len(s)), found |-> TRUE]
    ELSE [s |-> s, found |-> FALSE]

\* strings.ReplaceAll for a non-empty old: non-overlapping, left to right
RECURSIVE ReplaceAll(_, _, _)
ReplaceAll(s, old, new) ==
    IF Len(s) < Len(old) THEN s
    ELSE IF HasPrefix(s, old)
         THEN new \o ReplaceAll(SubSeq(s, Len(old) + 1, Len(s)), old, new)
         ELSE <<Head(s)>> \o ReplaceAll(Tail(s), old, new)

\* index of the first occurrence of the character c in s, 0 if none
RECURSIVE IndexFrom(_, _, _)
IndexFrom(s, c, i) ==
    IF i > Len(s) THEN 0
    ELSE IF s[i] = c THEN i ELSE IndexFrom(s, c, i + 1)

Index(s, c) == IndexFrom(s, c, 1)

\* strings.Split(s, sep) for a one-character separator
RECURSIVE Split(_, _)
Split(s, sep) ==
    LET i == Index(s, sep) IN
    IF i = 0 THEN <<s>>
    ELSE <<SubSeq(s, 1, i - 1)>> \o Split(SubSeq(s, i + 1, Len(s)), sep)

\* strings.SplitN(s, sep, 2) for a one-character separator
SplitN2(s, sep) ==
    LET i == Index(s, sep) IN
    IF i = 0 THEN <<s>>
    ELSE <<SubSeq(s, 1, i - 1), SubSeq(s, i + 1, Len(s))>>

-----------------------------------------------------------------------------
(* parseKeyValuePairs *)

NoError == [msg |-> "", line |-> -1]
Error(msg) == [msg |-> msg, line |-> -1]
ErrorAt(msg, i) == [msg |-> msg, line |-> i]

\* map assignment m[k] = v
MapSet(m, k, v) == [x \in DOMAIN m \cup {k} |-> IF x = k THEN v ELSE m[x]]

\* err.Error(): the text of lines 254, 282 (with its line index) and 309
ErrorString(err) ==
    IF err.line = -1 THEN err.msg ELSE err.msg \o ": " \o ToString(err.line)

EmptyMap == <<>>

\* (map, error) as Go returns it: isNil tells a nil map from an empty one
ParseResult(result, isNil, err) == [result |-> result, isNil |-> isNil, err |-> err]

\* the part of a block's text up to its end: the shared body of lines 264-268
\* and 290-294
BlockText(line) ==
    LET cut == IF ~HasSuffix(line, escapedBacktick)
               THEN CutSuffix(line, <<BT>>)
               ELSE [s |-> line, found |-> FALSE]
    IN [text |-> ReplaceAll(cut.s, escapedBacktick, <<BT>>),
        isEndOfBlock |-> cut.found]

\* the loop of parseKeyValuePairs from line index i (1-based here; the error
\* carries Go's 0-based index)
RECURSIVE ParseLoop(_, _, _, _, _)
ParseLoop(lines, i, multilineKey, multilineValue, result) ==
    IF i > Len(lines)
    THEN IF Len(multilineKey) # 0
         THEN ParseResult(EmptyMap, TRUE, Error("Backticked block is not closed"))
         ELSE ParseResult(result, FALSE, NoError)
    ELSE
    LET line == lines[i] IN
    IF Len(multilineKey) > 0
    THEN \* inside backticked block
         LET b == BlockText(line)
             value == multilineValue \o <<"\n">> \o b.text
         IN IF b.isEndOfBlock
            THEN ParseLoop(lines, i + 1, <<>>, <<>>, MapSet(result, multilineKey, value))
            ELSE ParseLoop(lines, i + 1, multilineKey, value, result)
    ELSE
    LET parts == SplitN2(line, "=") IN
    IF Len(parts) # 2
    THEN ParseResult(EmptyMap, TRUE, ErrorAt("Missing '=' at line", i - 1))
    ELSE
    LET open == CutPrefix(parts[2], <<BT>>) IN
    IF open.found
    THEN \* backticked block starts
         LET b == BlockText(open.s)
             value == multilineValue \o b.text
         IN IF b.isEndOfBlock
            THEN ParseLoop(lines, i + 1, <<>>, <<>>, MapSet(result, parts[1], value))
            ELSE ParseLoop(lines, i + 1, parts[1], value, result)
    ELSE \* oneline value
         ParseLoop(lines, i + 1, multilineKey, multilineValue,
                   MapSet(result, parts[1], parts[2]))

parseKeyValuePairs(data) ==
    LET lines == Split(data, "\n") IN
    IF Len(lines) = 1 /\ Len(lines[1]) = 0
    THEN ParseResult(EmptyMap, TRUE, Error("empty"))
    ELSE ParseLoop(lines, 1, <<>>, <<>>, EmptyMap)

-----------------------------------------------------------------------------
(* Helpers of the service over TLA+ strings. *)

\* the characters of a string written in ASCII
Runes(str) == [i \in 1..Len(str) |-> SubSeq(str, i, i)]

\* the Unicode White_Space characters beyond ASCII's space, '\t', '\n', '\f'
\* and '\r', each a character named by its code point
VT == "U+000B"
NEL == "U+0085"
NBSP == "U+00A0"
WideSpaces ==
    {"U+1680", "U+2000", "U+2001", "U+2002", "U+2003", "U+2004", "U+2005",
     "U+2006", "U+2007", "U+2008", "U+2009", "U+200A", "U+2028", "U+2029",
     "U+202F", "U+205F", "U+3000"}

\* unicode.IsSpace: '\t', '\n', '\v', '\f', '\r', ' ', U+0085, U+00A0 in
\* Latin-1, and the White_Space characters above it
IsSpace(c) == c \in {" ", "\t", "\n", VT, "\f", "\r", NEL, NBSP} \cup WideSpaces

RECURSIVE TrimLeft(_)
TrimLeft(s) ==
    IF Len(s) > 0 /\ IsSpace(s[1]) THEN TrimLeft(Tail(s)) ELSE s

RECURSIVE TrimRight(_)
TrimRight(s) ==
    IF Len(s) > 0 /\ IsSpace(s[Len(s)])
    THEN TrimRight(SubSeq(s, 1, Len(s) - 1)) ELSE s

\* strings.TrimSpace
TrimSpace(s) == TrimRight(TrimLeft(s))

\* toStringSet without the strings.TrimSpace of line 176
toStringSetUntrimmed(values) ==
    {values[i] : i \in DOMAIN values} \ {<<>>}

\* toStringSet: values is a list of strings
toStringSet(values) ==
    {TrimSpace(values[i]) : i \in DOMAIN values} \ {<<>>}

copyStringMap(source) == [key \in DOMAIN source |-> source[key]]

ClusterWide == Runes("sealedsecrets.bitnami.com/cluster-wide")
NamespaceWide == Runes("sealedsecrets.bitnami.com/namespace-wide")

\* getScopeAnnotations with the markers of lines 198 and 200 exchanged
getScopeAnnotationsSwapped(scope) ==
    CASE scope = "cluster" -> (NamespaceWide :> "true")
      [] scope = "namespace" -> (ClusterWide :> "true")
      [] OTHER -> EmptyMap

getScopeAnnotations(scope) ==
    CASE scope = "cluster" -> (ClusterWide :> "true")
      [] scope = "namespace" -> (NamespaceWide :> "true")
      [] OTHER -> EmptyMap

\* isScopeAnnotation with the case of line 208 missing
isScopeAnnotationNever(annotationKey) == FALSE

isScopeAnnotation(annotationKey) ==
    annotationKey \in {ClusterWide, NamespaceWide}

\* getLabel whose default branch joins without the separator
getLabelNoSeparator(req) ==
    CASE req.scope = "cluster" -> ""
      [] req.scope = "namespace" -> req.namespace
      [] OTHER -> req.namespace \o req.secretName

\* getLabel that knows "strict" and gives any other scope the empty label
getLabelStrictOnly(req) ==
    CASE req.scope = "namespace" -> req.namespace
      [] req.scope = "strict" -> req.namespace \o "/" \o req.secretName
      [] OTHER -> ""

getLabel(req) ==
    CASE req.scope = "cluster" -> ""
      [] req.scope = "namespace" -> req.namespace
      [] OTHER -> req.namespace \o "/" \o req.secretName

\* the merge with the two loops of lines 69-75 in the other order
mergeValuesExistingWins(existing, values) ==
    [key \in DOMAIN existing \cup DOMAIN values |->
        IF key \in DOMAIN existing THEN existing[key] ELSE values[key]]

\* lines 67-75: existingData first, then opts.Values over it
mergeValues(existing, values) ==
    [key \in DOMAIN existing \cup DOMAIN values |->
        IF key \in DOMAIN values THEN values[key] ELSE existing[key]]

\* the ciphertext of one value: the key and label it was sealed under
hybridEncrypt(key, value, label) ==
    [pubKey |-> key, plaintext |-> value, label |-> label]

-----------------------------------------------------------------------------
(* The cluster as the service reads it. *)

NotRead == [status |-> "none", data |-> EmptyMap]
NotFound == [status |-> "NotFound", data |-> EmptyMap]
OtherError == [status |-> "Error", data |-> EmptyMap]
Found(data) == [status |-> "Found", data |-> data]

\* Secret.Data of the stored secrets the model enumerates
StoredData ==
    { EmptyMap,
      <<"a">> :> <<"1">>,
      (<<"a">> :> <<"1">>) @@ (<<"b">> :> <<"2">>) }

SecretReads == {NotFound, OtherError} \cup {Found(d) : d \in StoredData}

\* metadata.annotations of the stored sealed records the model enumerates
StoredAnnotations ==
    { EmptyMap,
      Runes("owner") :> "team-x",
      (Runes("owner") :> "team-x") @@ (NamespaceWide :> "true")
          @@ (Runes("note") :> "n"),
      (Runes("wave") :> "5") @@ (ClusterWide :> "true")
          @@ (Runes(" owner ") :> "team-y") }

AnnotationReads == {NotFound, OtherError} \cup {Found(a) : a \in StoredAnnotations}

\* the allow-lists the service is constructed with
Allowlists ==
    { <<>>,
      <<Runes("  "), <<>>>>,
      <<Runes("owner")>>,
      <<Runes(" owner "), <<>>, Runes("wave"), NamespaceWide>>,
      <<<<"\f", NBSP>> \o Runes("owner") \o <<VT>>, <<NEL, "U+3000", "\t">>,
        Runes("note") \o <<"U+2003", "\r", "\n">>>>,
      <<ClusterWide, NamespaceWide>> }

\* getSecretData given the outcome of Secrets(namespace).Get: a failure other
\* than not-found is not looked at, and the typed client hands back a zero
\* Secret, whose Data decodes to an empty map
getSecretData(read) ==
    IF read.status = "NotFound"
    THEN [data |-> EmptyMap, err |-> ""]
    ELSE [data |-> copyStringMap(read.data), err |-> ""]

\* getSealedSecretAnnotations given the allow-list and the outcome of the
\* dynamic client's Get (NotRead when the allow-list is empty)
getSealedSecretAnnotations(allow, read) ==
    IF allow = {} THEN [annotations |-> EmptyMap, err |-> ""]
    ELSE IF read.status = "NotFound" THEN [annotations |-> EmptyMap, err |-> ""]
    ELSE IF read.status # "Found" THEN [annotations |-> EmptyMap, err |-> "get sealed secret"]
    ELSE IF DOMAIN read.data = {} THEN [annotations |-> EmptyMap, err |-> ""]
    ELSE [annotations |-> [key \in allow \cap DOMAIN read.data |-> read.data[key]],
          err |-> ""]

\* lines 97-110: the scope annotations, then the preserved ones over them
mergeAnnotations(scopeAnnotations, preservedAnnotations) ==
    LET kept == {key \in DOMAIN preservedAnnotations : ~isScopeAnnotation(key)} IN
    [key \in DOMAIN scopeAnnotations \cup kept |->
        IF key \in kept THEN preservedAnnotations[key] ELSE scopeAnnotations[key]]

\* model.SealedSecret as CreateSealedSecret fills it
SealedSecret(req, encrypted, annotations) ==
    [apiVersion |-> "bitnami.com/v1alpha1",
     kind |-> "SealedSecret",
     metadata |-> [name |-> req.secretName, namespace |-> req.namespace,
                   annotations |-> annotations],
     encryptedData |-> encrypted,
     template |-> [name |-> req.secretName, namespace |-> req.namespace,
                   annotations |-> getScopeAnnotations(req.scope)]]

\* (string(yamlData), err): the manifest is a document of one record, and the
\* empty string is the empty document
Return(sealedSecret) == [yaml |-> <<sealedSecret>>, err |-> ""]
ReturnError(err) == [yaml |-> <<>>, err |-> err]
NotReturned == [yaml |-> <<>>, err |-> "(not returned)"]

\* what the handler issues for a request.  rendered tells whether the Render
\* of a component wrote its output; it does not when the writes to w fail (as
\* they all do once the server's TimeoutHandler has answered for the
\* handler), and the handler then issues an http.Error with status 500.
httpError(message, status) == [status |-> status, message |-> message, code |-> <<>>]

\* lines 135-143: ui.Error(message).Render, and http.Error when it fails
respondError(message, rendered) ==
    IF rendered
    THEN [status |-> 200, message |-> message, code |-> <<>>]
    ELSE httpError("Error rendering error message", 500)

\* lines 241-246: ui.CodeArea(yamlManifest).Render, and http.Error when it fails
CodeArea(yaml, rendered) ==
    IF rendered
    THEN [status |-> 200, message |-> "", code |-> yaml]
    ELSE httpError("Error rendering code area", 500)

NoResponse == [status |-> 0, message |-> "(none)", code |-> <<>>]

-----------------------------------------------------------------------------
(* Inputs. *)

Methods == {"POST", "GET"}
Scopes == {"", "cluster", "namespace", "strict", "other"}
Namespaces == {"", "ns1"}
SecretNames == {"", "app"}

\* textarea contents posted to the running service
FormTexts ==
    { <<>>,
      <<"a">>,
      <<"a", "=", "9">>,
      <<"b", "=", "3", "\n", "c", "=", "4">>,
      <<"=", BT, "x">> }

Alphabet == {"a", "b", "=", "\n", "\\", BT}

\* every text over Alphabet of length n, and of length at most n
RECURSIVE TextsOfLen(_)
TextsOfLen(n) ==
    IF n = 0 THEN {<<>>}
    ELSE {Append(t, c) : t \in TextsOfLen(n - 1), c \in Alphabet}

Texts == UNION {TextsOfLen(n) : n \in 0..MaxTextLen}

\* no request is being served
NoForm == [method |-> "", malformed |-> FALSE, scope |-> "", namespace |-> "",
           secretName |-> "", values |-> <<>>]

NoKey == -1

encryptRequest == [scope |-> form.scope, namespace |-> form.namespace,
                   secretName |-> form.secretName]

-----------------------------------------------------------------------------
(* State. *)

service == <<annotationsToPreserve, annotationAllowlist>>
locals == <<secretRead, existingData, valuesToEncrypt, pubKey, encryptedData,
            toRange, annRead, ret, calls>>

ServiceInit(allowlists) ==
    /\ annotationAllowlist \in allowlists
    /\ annotationsToPreserve = toStringSet(annotationAllowlist)
    /\ controllerKey = 0
    /\ pc = "idle"
    /\ form = NoForm
    /\ keyValues = ParseResult(EmptyMap, TRUE, NoError)
    /\ secretRead = NotRead
    /\ existingData = EmptyMap
    /\ valuesToEncrypt = EmptyMap
    /\ pubKey = NoKey
    /\ encryptedData = EmptyMap
    /\ toRange = {}
    /\ annRead = NotRead
    /\ ret = NotReturned
    /\ response = NoResponse
    /\ calls = <<>>
    /\ labelPair = <<>>

\* NewSealedSecretService, and a server waiting for its first request
Init == ServiceInit(Allowlists)

-----------------------------------------------------------------------------
(* CreateSealedSecretHandler up to its call of the service. *)

\* line 207: one of the four fields is empty
FieldMissing(f) ==
    f.scope = "" \/ f.namespace = "" \/ f.secretName = "" \/ f.values = <<>>

\* lines 192-222: what the handler does with a request before calling the
\* service: the answer it issues, or NoResponse when it goes on to call
\* CreateSealedSecret.  f.malformed is a request whose r.ParseForm() fails.
Rejection(f, kv, rendered) ==
    IF f.method # "POST" THEN httpError("Method not allowed", 405)
    ELSE IF f.malformed THEN httpError("Error parsing form", 400)
    ELSE IF FieldMissing(f) THEN respondError("All fields are required", rendered)
    ELSE IF kv.err # NoError
    THEN respondError("Wrongly formatted value(s): " \o ErrorString(kv.err), rendered)
    ELSE IF kv.isNil THEN respondError("No key-value pairs found", rendered)
    ELSE NoResponse

HandlerBegin(methods, bodies, scopes, namespaces, secretNames, texts) ==
    /\ pc = "idle"
    /\ \E m \in methods, malformed \in bodies, scope \in scopes, ns \in namespaces,
          name \in secretNames, text \in texts, rendered \in BOOLEAN :
        LET f == [method |-> m, malformed |-> malformed, scope |-> scope,
                  namespace |-> ns, secretName |-> name, values |-> text]
            kv == parseKeyValuePairs(text)
            parsed == f.method = "POST" /\ ~f.malformed /\ ~FieldMissing(f)
        IN /\ form' = f
           /\ keyValues' = IF parsed THEN kv ELSE ParseResult(EmptyMap, TRUE, NoError)
           /\ response' = Rejection(f, kv, rendered)
           /\ pc' = IF Rejection(f, kv, rendered) # NoResponse THEN "responded"
                    ELSE "getSecretData"
    /\ UNCHANGED <<service, controllerKey, locals, labelPair>>

\* a request posted to the running service
CreateSealedSecretHandler ==
    HandlerBegin(Methods, BOOLEAN, Scopes, Namespaces, SecretNames, FormTexts)

\* a request whose textarea holds any text up to MaxTextLen
ParseForm ==
    HandlerBegin({"POST"}, BOOLEAN, {"strict"}, {"ns1"}, {"app"}, Texts)

-----------------------------------------------------------------------------
(* SealedSecretService.CreateSealedSecret, one step per call it makes. *)

\* lines 62-75: read the existing secret, merge the submitted values over it
GetSecretData ==
    /\ pc = "getSecretData"
    /\ \E read \in SecretReads :
        LET got == getSecretData(read) IN
        /\ secretRead' = read
        /\ calls' = Append(calls, "getSecretData")
        /\ IF got.err # ""
           THEN /\ ret' = ReturnError("failed to get existing secret data")
                /\ pc' = "returned"
                /\ UNCHANGED <<existingData, valuesToEncrypt>>
           ELSE /\ existingData' = got.data
                /\ valuesToEncrypt' = mergeValues(got.data, keyValues.result)
                /\ pc' = "getPublicKey"
                /\ ret' = ret
    /\ UNCHANGED <<service, controllerKey, form, keyValues, pubKey, encryptedData,
                   toRange, annRead, response, labelPair>>

\* the key fetch issued without waiting for it: encryption starts with
\* whatever pubKey holds
GetPublicKeyNotAwaited ==
    /\ pc = "getPublicKey"
    /\ toRange' = DOMAIN valuesToEncrypt
    /\ pc' = "encryptValues"
    /\ UNCHANGED <<service, controllerKey, form, keyValues, secretRead, existingData,
                   valuesToEncrypt, pubKey, encryptedData, annRead, ret, calls,
                   response, labelPair>>

\* the key fetch answered from a key kept from before the last rotation
GetPublicKeyStale ==
    /\ pc = "getPublicKey"
    /\ calls' = Append(calls, "getPublicKey")
    /\ \E fetched \in BOOLEAN :
        IF fetched
        THEN /\ pubKey' = IF controllerKey > 0 THEN controllerKey - 1 ELSE controllerKey
             /\ toRange' = DOMAIN valuesToEncrypt
             /\ pc' = "encryptValues"
             /\ ret' = ret
        ELSE /\ ret' = ReturnError("failed to get public key")
             /\ pc' = "returned"
             /\ UNCHANGED <<pubKey, toRange>>
    /\ UNCHANGED <<service, controllerKey, form, keyValues, secretRead, existingData,
                   valuesToEncrypt, encryptedData, annRead, response, labelPair>>

\* lines 79-90: fetch the controller's public key, or fail
GetPublicKey ==
    /\ pc = "getPublicKey"
    /\ calls' = Append(calls, "getPublicKey")
    /\ \E fetched \in BOOLEAN :
        IF fetched
        THEN /\ pubKey' = controllerKey
             /\ toRange' = DOMAIN valuesToEncrypt
             /\ pc' = "encryptValues"
             /\ ret' = ret
        ELSE /\ ret' = ReturnError("failed to get public key")
             /\ pc' = "returned"
             /\ UNCHANGED <<pubKey, toRange>>
    /\ UNCHANGED <<service, controllerKey, form, keyValues, secretRead, existingData,
                   valuesToEncrypt, encryptedData, annRead, response, labelPair>>

\* the range loop going on to the next key when hybridEncrypt fails
EncryptValueSkipFailed ==
    /\ pc = "encryptValues"
    /\ \E key \in toRange, sealed \in BOOLEAN :
        /\ calls' = Append(calls, "hybridEncrypt")
        /\ encryptedData' =
               IF sealed
               THEN MapSet(encryptedData, key,
                           hybridEncrypt(pubKey, valuesToEncrypt[key],
                                         getLabel(encryptRequest)))
               ELSE encryptedData
        /\ toRange' = toRange \ {key}
        /\ UNCHANGED <<pc, ret>>
    /\ UNCHANGED <<service, controllerKey, form, keyValues, secretRead, existingData,
                   valuesToEncrypt, pubKey, annRead, response, labelPair>>

\* lines 161-168: one iteration of the range loop, over any key not yet visited
EncryptValue ==
    /\ pc = "encryptValues"
    /\ \E key \in toRange, sealed \in BOOLEAN :
        /\ calls' = Append(calls, "hybridEncrypt")
        /\ IF sealed
           THEN /\ encryptedData' =
                     MapSet(encryptedData, key,
                            hybridEncrypt(pubKey, valuesToEncrypt[key],
                                          getLabel(encryptRequest)))
                /\ toRange' = toRange \ {key}
                /\ UNCHANGED <<pc, ret>>
           ELSE /\ encryptedData' = EmptyMap
                /\ toRange' = {}
                /\ ret' = ReturnError("failed to encrypt value")
                /\ pc' = "returned"
    /\ UNCHANGED <<service, controllerKey, form, keyValues, secretRead, existingData,
                   valuesToEncrypt, pubKey, annRead, response, labelPair>>

\* lines 97-137: the range loop is over; read the annotations to preserve,
\* assemble the record and return it (yaml.Marshal of a record of strings
\* and string maps has no failing case)
GetSealedSecretAnnotations ==
    /\ pc = "encryptValues"
    /\ toRange = {}
    /\ \E read \in IF annotationsToPreserve = {} THEN {NotRead} ELSE AnnotationReads :
        LET got == getSealedSecretAnnotations(annotationsToPreserve, read)
            annotations == mergeAnnotations(
                               copyStringMap(getScopeAnnotations(encryptRequest.scope)),
                               got.annotations)
        IN /\ annRead' = read
           /\ calls' = IF read = NotRead THEN calls
                       ELSE Append(calls, "getSealedSecretAnnotations")
           /\ ret' = IF got.err # ""
                     THEN ReturnError("failed to get existing sealed-secret annotations")
                     ELSE Return(SealedSecret(encryptRequest, encryptedData, annotations))
    /\ pc' = "returned"
    /\ UNCHANGED <<service, controllerKey, form, keyValues, secretRead, existingData,
                   valuesToEncrypt, pubKey, encryptedData, toRange, response, labelPair>>

\* k8s.go lines 233-247: the handler renders what the service returned
HandlerEnd ==
    /\ pc = "returned"
    /\ \E rendered \in BOOLEAN :
        response' = IF ret.err # ""
                    THEN respondError("Error creating sealed secret", rendered)
                    ELSE CodeArea(ret.yaml, rendered)
    /\ pc' = "responded"
    /\ UNCHANGED <<service, controllerKey, form, keyValues, locals, labelPair>>

\* the request is over: its form and the locals of its calls are gone, and
\* the server waits for the next one
ServeNext ==
    /\ pc = "responded"
    /\ pc' = "idle"
    /\ form' = NoForm
    /\ keyValues' = ParseResult(EmptyMap, TRUE, NoError)
    /\ secretRead' = NotRead
    /\ existingData' = EmptyMap
    /\ valuesToEncrypt' = EmptyMap
    /\ pubKey' = NoKey
    /\ encryptedData' = EmptyMap
    /\ toRange' = {}
    /\ annRead' = NotRead
    /\ ret' = NotReturned
    /\ response' = NoResponse
    /\ calls' = <<>>
    /\ UNCHANGED <<service, controllerKey, labelPair>>

\* the controller rotates its key, at any time
RotateKey ==
    /\ controllerKey < MaxRotations
    /\ controllerKey' = controllerKey + 1
    /\ UNCHANGED <<service, pc, form, keyValues, locals, response, labelPair>>

Next ==
    \/ CreateSealedSecretHandler
    \/ GetSecretData
    \/ GetPublicKey
    \/ EncryptValue
    \/ GetSealedSecretAnnotations
    \/ HandlerEnd
    \/ ServeNext
    \/ RotateKey

Spec == Init /\ [][Next]_vars

-----------------------------------------------------------------------------
(* The parser on every text up to MaxTextLen. *)

InitParse == ServiceInit({<<>>})
NextParse == ParseForm
SpecParse == InitParse /\ [][NextParse]_vars

-----------------------------------------------------------------------------
(* getLabel on pairs of requests. *)

NameChars == {"a", "/"}

RECURSIVE NamesOfLen(_)
NamesOfLen(n) ==
    IF n = 0 THEN {""}
    ELSE {name \o c : name \in NamesOfLen(n - 1), c \in NameChars}

Names == UNION {NamesOfLen(n) : n \in 0..MaxNameLen}

LabelRequests ==
    [scope : Scopes \ {""}, namespace : Names, secretName : Names]

Labelled(req) == [req |-> req, label |-> getLabel(req)]

ResolveLabels ==
    /\ labelPair = <<>>
    /\ \E r1 \in LabelRequests, r2 \in LabelRequests :
        labelPair' = <<Labelled(r1), Labelled(r2)>>
    /\ UNCHANGED <<service, controllerKey, pc, form, keyValues, locals, response>>

InitLabel == ServiceInit({<<>>})
NextLabel == ResolveLabels
SpecLabel == InitLabel /\ [][NextLabel]_vars

-----------------------------------------------------------------------------
(* Properties. *)

Range(seq) == {seq[i] : i \in DOMAIN seq}

\* CreateSealedSecret has returned a manifest
Succeeded == pc \in {"returned", "responded"} /\ ret.err = ""

\* metadata.annotations of the returned manifest
OutAnnotations == ret.yaml[1].metadata.annotations

ScopeKeys == {ClusterWide, NamespaceWide}

\* C1: in every manifest a successful CreateSealedSecret returns, the
\* scope-control keys among metadata.annotations are exactly those of
\* getScopeAnnotations(scope), with their values, whatever the stored
\* annotations and the allow-list are.
C1_ScopeKeysRecomputed ==
    Succeeded =>
        \A key \in ScopeKeys :
            /\ key \in DOMAIN OutAnnotations
                   <=> key \in DOMAIN getScopeAnnotations(form.scope)
            /\ key \in DOMAIN OutAnnotations
                   => OutAnnotations[key] = getScopeAnnotations(form.scope)[key]

\* a Strict request over a record that carries an allow-listed namespace-wide
\* marker and an owner: the owner is kept
C1_Witness ==
    /\ Succeeded
    /\ form.scope = "strict"
    /\ NamespaceWide \in annotationsToPreserve
    /\ annRead.status = "Found"
    /\ NamespaceWide \in DOMAIN annRead.data
    /\ Runes("owner") \in DOMAIN OutAnnotations

\* K is an entry of the allow-list once trimmed, and not empty
AllowListed(key) ==
    /\ key # <<>>
    /\ \E i \in DOMAIN annotationAllowlist : TrimSpace(annotationAllowlist[i]) = key

\* C2: in every manifest a successful CreateSealedSecret returns, a key that
\* is not a scope-control key is among metadata.annotations if and only if
\* it is on the trimmed allow-list and the stored sealed record carries it,
\* and it has the stored value.
C2_PreservedIffAllowListed ==
    Succeeded =>
        \A key \in (DOMAIN OutAnnotations \cup DOMAIN annRead.data
                    \cup {TrimSpace(annotationAllowlist[i]) :
                              i \in DOMAIN annotationAllowlist}) \ ScopeKeys :
            /\ key \in DOMAIN OutAnnotations
                   <=> (AllowListed(key) /\ key \in DOMAIN annRead.data)
            /\ key \in DOMAIN OutAnnotations => OutAnnotations[key] = annRead.data[key]

\* one stored annotation is kept through an allow-list entry that needed
\* trimming, and another one, not on the allow-list, is dropped
C2_Witness ==
    /\ Succeeded
    /\ Runes("owner") \in DOMAIN OutAnnotations
    /\ Runes("owner") \notin Range(annotationAllowlist)
    /\ \E key \in DOMAIN annRead.data \ ScopeKeys : key \notin DOMAIN OutAnnotations

\* C3: once the stored secret is read (existingData is what the read gave:
\* the stored data, or nothing for a missing secret), the values handed to
\* encryption are the union of the stored and the submitted keys, a
\* submitted key with the submitted value and a key only in storage with the
\* stored value; each ciphertext seals the value of its key in that union.
C3_MergeRightBiased ==
    secretRead # NotRead =>
        /\ secretRead.status \in {"Found", "NotFound"} => existingData = secretRead.data
        /\ DOMAIN valuesToEncrypt = DOMAIN existingData \cup DOMAIN keyValues.result
        /\ \A key \in DOMAIN valuesToEncrypt :
            IF key \in DOMAIN keyValues.result
            THEN valuesToEncrypt[key] = keyValues.result[key]
            ELSE valuesToEncrypt[key] = existingData[key]
        /\ \A key \in DOMAIN encryptedData :
            /\ key \in DOMAIN valuesToEncrypt
            /\ encryptedData[key].plaintext =
                   IF key \in DOMAIN keyValues.result
                   THEN keyValues.result[key] ELSE existingData[key]

\* stored {a:1, b:2} and submitted {b:3, c:4} are encrypted as {a:1, b:3, c:4}
C3_Witness ==
    /\ existingData = (<<"a">> :> <<"1">>) @@ (<<"b">> :> <<"2">>)
    /\ keyValues.result = (<<"b">> :> <<"3">>) @@ (<<"c">> :> <<"4">>)
    /\ valuesToEncrypt =
           (<<"a">> :> <<"1">>) @@ (<<"b">> :> <<"3">>) @@ (<<"c">> :> <<"4">>)
    /\ DOMAIN encryptedData = DOMAIN valuesToEncrypt
    /\ Succeeded

\* the requests of the pair getLabel was applied to
R1 == labelPair[1].req
R2 == labelPair[2].req

NoSlash(name) == \A i \in 1..Len(name) : SubSeq(name, i, i) # "/"

\* Strict- or Namespace-scoped: any scope but "cluster" (an unrecognized
\* scope is sealed as Strict)
StrictOrNamespace(req) == req.scope # "cluster"

\* C4 as stated: two Strict- or Namespace-scoped requests whose namespace or
\* secretName differ resolve to different labels.
C4_Original ==
    (/\ labelPair # <<>>
     /\ StrictOrNamespace(R1) /\ StrictOrNamespace(R2)
     /\ (R1.namespace # R2.namespace \/ R1.secretName # R2.secretName))
        => labelPair[1].label # labelPair[2].label

\* C4 amended: for requests whose namespace and secretName hold no "/", two
\* Namespace-scoped requests resolve to different labels whenever their
\* namespaces differ, two Strict-scoped (or unrecognized-scope) requests
\* whenever their namespace or secretName differ, and a Namespace-scoped and
\* a Strict-scoped request always.
C4_LabelsSeparateBoundContexts ==
    (/\ labelPair # <<>>
     /\ StrictOrNamespace(R1) /\ StrictOrNamespace(R2)
     /\ NoSlash(R1.namespace) /\ NoSlash(R1.secretName)
     /\ NoSlash(R2.namespace) /\ NoSlash(R2.secretName))
        => IF R1.scope = "namespace" /\ R2.scope = "namespace"
           THEN R1.namespace # R2.namespace
                    => labelPair[1].label # labelPair[2].label
           ELSE IF R1.scope # "namespace" /\ R2.scope # "namespace"
           THEN (R1.namespace # R2.namespace \/ R1.secretName # R2.secretName)
                    => labelPair[1].label # labelPair[2].label
           ELSE labelPair[1].label # labelPair[2].label

\* two Strict requests that split the same characters differently between
\* namespace and secretName, with no "/" in either
C4_Witness ==
    /\ labelPair # <<>>
    /\ R1.scope = "strict" /\ R2.scope = "other"
    /\ R1.namespace = "a" /\ R1.secretName = "aa"
    /\ R2.namespace = "aa" /\ R2.secretName = "a"
    /\ labelPair[1].label # labelPair[2].label

\* the label the claim gives the scope of the request being served
ClaimedLabel ==
    IF form.scope = "cluster" THEN ""
    ELSE IF form.scope = "namespace" THEN form.namespace
    ELSE form.namespace \o "/" \o form.secretName

\* C5: the label is "" for scope "cluster", the namespace for scope
\* "namespace" and namespace/secretName for any other scope, and every value
\* of one CreateSealedSecret call is encrypted under that label.
C5_LabelByScope ==
    /\ \A key \in DOMAIN encryptedData : encryptedData[key].label = ClaimedLabel
    /\ Succeeded =>
           \A key \in DOMAIN ret.yaml[1].encryptedData :
               ret.yaml[1].encryptedData[key].label = ClaimedLabel

\* an unrecognized scope, three values sealed under namespace/secretName
C5_Witness ==
    /\ Succeeded
    /\ form.scope = "other"
    /\ Cardinality(DOMAIN ret.yaml[1].encryptedData) = 3
    /\ \A key \in DOMAIN ret.yaml[1].encryptedData :
           ret.yaml[1].encryptedData[key].label = "ns1/app"

\* C6: when one hybridEncrypt fails, encryptValues returns no map,
\* CreateSealedSecret returns an error and the empty manifest, and the
\* handler answers through respondError with the error message alone (or,
\* when that cannot be rendered, with the status 500 of respondError) and no
\* manifest; a manifest that is returned or rendered holds a ciphertext for
\* every merged key.
C6_NoPartialManifest ==
    /\ ret.err = "failed to encrypt value" =>
           /\ encryptedData = EmptyMap
           /\ ret.yaml = <<>>
           /\ pc = "responded" =>
                  response \in {respondError("Error creating sealed secret", rendered) :
                                   rendered \in BOOLEAN}
    /\ ret.err # "" => ret.yaml = <<>>
    /\ ret.yaml # <<>> =>
           DOMAIN ret.yaml[1].encryptedData = DOMAIN valuesToEncrypt
    /\ response.code # <<>> =>
           /\ response.message = ""
           /\ DOMAIN response.code[1].encryptedData = DOMAIN valuesToEncrypt

\* of three merged keys two were sealed and the third failed: the handler
\* answered with the error alone
C6_Witness ==
    /\ pc = "responded"
    /\ ret.err = "failed to encrypt value"
    /\ Cardinality(DOMAIN valuesToEncrypt) = 3
    /\ Len(SelectSeq(calls, LAMBDA c : c = "hybridEncrypt")) = 3
    /\ response = respondError("Error creating sealed secret", TRUE)

\* the handler has handed form.values to parseKeyValuePairs
Parsed ==
    /\ pc # "idle"
    /\ form.method = "POST"
    /\ ~form.malformed
    /\ ~FieldMissing(form)

\* the text ends with a backtick that no backslash escapes
EndsUnescaped(text) ==
    HasSuffix(text, <<BT>>) /\ ~HasSuffix(text, <<"\\", BT>>)

\* reading the lines from line i with the two states of the format, outside
\* a block or inside one: the text ends inside a block that a line outside
\* any block opened
RECURSIVE EndsInsideBlock(_, _, _)
EndsInsideBlock(lines, i, inside) ==
    IF i > Len(lines) THEN inside
    ELSE IF inside
    THEN EndsInsideBlock(lines, i + 1, ~EndsUnescaped(lines[i]))
    ELSE LET eq == Index(lines[i], "=")
             value == SubSeq(lines[i], eq + 1, Len(lines[i]))
         IN IF eq = 0 THEN FALSE
            ELSE IF HasPrefix(value, <<BT>>)
            THEN EndsInsideBlock(lines, i + 1, ~EndsUnescaped(Tail(value)))
            ELSE EndsInsideBlock(lines, i + 1, FALSE)

Unterminated(text) == EndsInsideBlock(Split(text, "\n"), 1, FALSE)

\* C7 as stated: a text in which a line outside a block opens a block that
\* no line closes makes parseKeyValuePairs return an error, whatever the key
\* on the opening line.
C7_Original ==
    (Parsed /\ Unterminated(form.values)) => keyValues.err # NoError

\* C8 as stated: when the handler calls CreateSealedSecret, scope, namespace
\* and secretName are not empty and the parsed values hold at least one key.
C8_Original ==
    pc = "getSecretData" =>
        /\ form.scope # "" /\ form.namespace # "" /\ form.secretName # ""
        /\ keyValues.err = NoError
        /\ DOMAIN keyValues.result # {}

\* the calls made before the first hybridEncrypt of this execution
BeforeEncryption ==
    LET first == CHOOSE i \in DOMAIN calls :
                     /\ calls[i] = "hybridEncrypt"
                     /\ \A j \in 1..(i - 1) : calls[j] # "hybridEncrypt"
    IN Range(SubSeq(calls, 1, first - 1))

EncryptionStarted == "hybridEncrypt" \in Range(calls)

\* C9 as stated: the read of the stored secret, the read of the stored
\* annotations (which the code issues when the allow-list is not empty) and
\* the key fetch have all completed before the first hybridEncrypt.
C9_Original ==
    EncryptionStarted =>
        /\ "getSecretData" \in BeforeEncryption
        /\ "getPublicKey" \in BeforeEncryption
        /\ annotationsToPreserve # {} =>
               "getSealedSecretAnnotations" \in BeforeEncryption

\* C9 amended: the read of the stored secret and the key fetch have
\* completed before the first hybridEncrypt, which uses the fetched key; the
\* read of the stored annotations completes after the last hybridEncrypt,
\* when every merged key has its ciphertext, and is the last call.
C9_ReadsAroundEncryption ==
    /\ EncryptionStarted =>
           /\ "getSecretData" \in BeforeEncryption
           /\ "getPublicKey" \in BeforeEncryption
           /\ "getSealedSecretAnnotations" \notin BeforeEncryption
    /\ \A key \in DOMAIN encryptedData : encryptedData[key].pubKey # NoKey
    /\ \A i \in DOMAIN calls :
           calls[i] = "getSealedSecretAnnotations" =>
               /\ i = Len(calls)
               /\ DOMAIN encryptedData = DOMAIN valuesToEncrypt

\* both reads, the key fetch and three encryptions, the annotations last
C9_Witness ==
    /\ Succeeded
    /\ calls = <<"getSecretData", "getPublicKey", "hybridEncrypt", "hybridEncrypt",
                 "hybridEncrypt", "getSealedSecretAnnotations">>

\* C10 as stated: a not-found read gives the empty mapping and sealing goes
\* on; a read that fails otherwise makes CreateSealedSecret return an error
\* and no manifest.
C10_Original ==
    /\ secretRead = NotFound =>
           /\ existingData = EmptyMap
           /\ ret.err # "failed to get existing secret data"
    /\ (secretRead = OtherError /\ pc \in {"returned", "responded"}) =>
           /\ ret.err # ""
           /\ ret.yaml = <<>>

\* the text of a block line without its closing backtick, every
\* backslash+backtick pair a backtick
BlockLine(text) ==
    ReplaceAll(IF EndsUnescaped(text) THEN SubSeq(text, 1, Len(text) - 1) ELSE text,
               <<"\\", BT>>, <<BT>>)

\* reading the lines from line i with the two states of the format: for each
\* key, whether its last value came from a closed block, and that value.  A
\* block starts from the text after its opening backtick alone and takes each
\* later line whole, after a newline, up to the line that closes it.
RECURSIVE BlockValues(_, _, _, _, _, _)
BlockValues(lines, i, inside, key, value, stored) ==
    IF i > Len(lines) THEN stored
    ELSE IF inside
    THEN LET grown == value \o <<"\n">> \o BlockLine(lines[i]) IN
         IF EndsUnescaped(lines[i])
         THEN BlockValues(lines, i + 1, FALSE, <<>>, <<>>,
                          MapSet(stored, key, [isBlock |-> TRUE, value |-> grown]))
         ELSE BlockValues(lines, i + 1, TRUE, key, grown, stored)
    ELSE LET eq == Index(lines[i], "=")
             k == SubSeq(lines[i], 1, eq - 1)
             v == SubSeq(lines[i], eq + 1, Len(lines[i]))
         IN IF eq = 0 THEN stored
            ELSE IF HasPrefix(v, <<BT>>)
            THEN IF EndsUnescaped(Tail(v))
                 THEN BlockValues(lines, i + 1, FALSE, <<>>, <<>>,
                                  MapSet(stored, k, [isBlock |-> TRUE,
                                                     value |-> BlockLine(Tail(v))]))
                 ELSE BlockValues(lines, i + 1, TRUE, k, BlockLine(Tail(v)), stored)
            ELSE BlockValues(lines, i + 1, FALSE, <<>>, <<>>,
                             MapSet(stored, k, [isBlock |-> FALSE, value |-> v]))

ClosedBlocks(text) ==
    LET stored == BlockValues(Split(text, "\n"), 1, FALSE, <<>>, <<>>, EmptyMap)
    IN [k \in {x \in DOMAIN stored : stored[x].isBlock} |-> stored[k].value]

\* C11 as stated: when the text parses, the value stored for the key of each
\* block opened outside any block (and not assigned again later) is the text
\* after the opening backtick and the lines that follow, each after a
\* newline, up to the closing backtick, unescaped, with nothing from any
\* other block or line.
C11_Original ==
    (Parsed /\ keyValues.err = NoError) =>
        \A k \in DOMAIN ClosedBlocks(form.values) :
            /\ k \in DOMAIN keyValues.result
            /\ keyValues.result[k] = ClosedBlocks(form.values)[k]

\* the annotations the claim gives the scope of the request being served
ClaimedScopeAnnotations ==
    IF form.scope = "cluster" THEN ClusterWide :> "true"
    ELSE IF form.scope = "namespace" THEN NamespaceWide :> "true"
    ELSE EmptyMap

\* C12: the scope annotations of a returned manifest are the cluster-wide
\* marker alone for scope "cluster", the namespace-wide marker alone for
\* scope "namespace" and none for "strict" and any other scope; the marker
\* agrees with the label the values were sealed under: cluster-wide with the
\* empty label, namespace-wide with the namespace, none with
\* namespace/secretName.
C12_MarkerAgreesWithLabel ==
    Succeeded =>
        LET marker == ret.yaml[1].template.annotations
            sealed == ret.yaml[1].encryptedData
        IN /\ marker = ClaimedScopeAnnotations
           /\ \A key \in DOMAIN sealed :
               sealed[key].label =
                   IF ClusterWide \in DOMAIN marker THEN ""
                   ELSE IF NamespaceWide \in DOMAIN marker THEN form.namespace
                   ELSE form.namespace \o "/" \o form.secretName

\* a Namespace-scoped manifest: the namespace-wide marker, a value sealed
\* under the namespace
C12_Witness ==
    /\ Succeeded
    /\ form.scope = "namespace"
    /\ ret.yaml[1].template.annotations = (NamespaceWide :> "true")
    /\ \E key \in DOMAIN ret.yaml[1].encryptedData :
           ret.yaml[1].encryptedData[key].label = "ns1"

\* what holds of a call's key in every state
KeyOfThisCall ==
    /\ pc \in {"idle", "getSecretData", "getPublicKey"} =>
           pubKey = NoKey /\ encryptedData = EmptyMap
    /\ \A key \in DOMAIN encryptedData :
           /\ encryptedData[key].pubKey = pubKey
           /\ pubKey # NoKey
           /\ "getPublicKey" \in Range(calls)
    /\ Succeeded =>
           \A key \in DOMAIN ret.yaml[1].encryptedData :
               ret.yaml[1].encryptedData[key].pubKey = pubKey
    /\ ret.err = "failed to get public key" =>
           /\ encryptedData = EmptyMap
           /\ ret.yaml = <<>>
           /\ "hybridEncrypt" \notin Range(calls)

\* C13: over any sequence of calls and rotations, a call holds no key before
\* its own getPublicKey, that fetch gives it the key the controller has at
\* that moment, every value of the call is sealed under that key, the key is
\* dropped when the call is over, and a call whose fetch fails seals nothing
\* and returns an error.
C13_KeyFetchedPerCall ==
    [][/\ KeyOfThisCall'
       /\ pubKey' # pubKey =>
              \/ pc = "getPublicKey" /\ pubKey' = controllerKey
              \/ pc' = "idle" /\ pubKey' = NoKey]_vars

\* a call that fetched its key after one rotation and sealed three values
\* under it, the controller having rotated again since
C13_Witness ==
    /\ Succeeded
    /\ pubKey = 1
    /\ controllerKey = 2
    /\ Cardinality(DOMAIN ret.yaml[1].encryptedData) = 3
    /\ \A key \in DOMAIN ret.yaml[1].encryptedData :
           ret.yaml[1].encryptedData[key].pubKey = 1

====
